---- MODULE Spec2Model ----
(***************************************************************************)
(* 2-gram inverted index and conjunctive search of src/app.py.             *)
(*                                                                         *)
(* A Python str is a sequence of one-character strings.  A DataFrame is a  *)
(* record [columns, rows]: the set of its column names and the sequence of *)
(* its rows, each row a function from the column names to cell values.     *)
(* read_csv(dtype=str) gives a str for a filled cell and the float NaN for *)
(* an empty one; NaN is the one-element sequence <<"NaN">>, which is no    *)
(* text over the alphabet.  The index is a function from its keys (the     *)
(* tokens) to posting lists (sequences of row labels, repetitions kept).   *)
(* Column names are transliterated to ASCII.                               *)
(***************************************************************************)
EXTENDS Integers, Sequences, FiniteSets

VARIABLES df, index, pc, query, tokens, results

vars == <<df, index, pc, query, tokens, results>>

-----------------------------------------------------------------------------
(* Bounds of the model *)

MaxRows == 2

MaxQueryLen == 3

Alphabet == {"a", "n"}

NaN == <<"NaN">>

\* cell values a row can hold: the empty cell of a loaded file (NaN), the
\* empty str of a frame built in memory, and the text "na"
CellValues == {NaN, <<>>, <<"n", "a">>}

\* the searchable columns the loaded file may have
DfColumns == {"todofuken", "shikuchoson"}

Queries == UNION {[1..n -> Alphabet] : n \in 0..MaxQueryLen}

AllTokens == [1..2 -> Alphabet]

-----------------------------------------------------------------------------
(* Python and pandas primitives used by the program *)

Min(a, b) == IF a < b THEN a ELSE b

Max(a, b) == IF a > b THEN a ELSE b

\* text[a:b] for 0 <= a <= b: the characters at offsets a .. b-1 that exist
slice(text, a, b) == SubSeq(text, a + 1, Min(b, Len(text)))

\* str(v) of a cell: a str is itself, the float NaN prints as "nan"
str(v) == IF v = NaN THEN <<"n", "a", "n">> ELSE v

\* set(list): the elements of a list
set(list) == {list[k] : k \in DOMAIN list}

\* list(s) of a set: the language leaves the iteration order of a set
\* unspecified (CPython walks its hash table in slot order, which depends
\* on the values and on the table size), so every ordering of the elements
\* is a possible outcome; the value is the set of those orderings
list(s) ==
    {f \in [1..Cardinality(s) -> s] : \A i, j \in 1..Cardinality(s) : i # j => f[i] # f[j]}

\* defaultdict(list).__getitem__: a missing key is inserted with []
index_getitem(idx, key) ==
    IF key \in DOMAIN idx THEN idx
    ELSE [k \in DOMAIN idx \cup {key} |-> IF k \in DOMAIN idx THEN idx[k] ELSE <<>>]

\* index[token].append(i)
index_append(idx, token, i) ==
    LET d == index_getitem(idx, token)
    IN [d EXCEPT ![token] = Append(@, i)]

-----------------------------------------------------------------------------
(* The program *)

SearchableCols ==
    << "todofuken", "todofuken_kana", "shikuchoson", "shikuchoson_kana",
       "choiki", "choiki_kana", "choiki_hosoku", "hosoku",
       "jigyoshomei", "jigyoshomei_kana", "jigyosho_jusho" >>

\* variant: the window runs to the last character, range(len(text))
generate_2grams_to_end(text) ==
    [i \in 1..Len(text) |-> slice(text, i - 1, i + 1)]

\* variant: the window advances by its width, range(0, len(text) - 1, 2)
generate_2grams_stride(text) ==
    [i \in 1..(Max(Len(text), 0) \div 2) |-> slice(text, 2 * (i - 1), 2 * i)]

generate_2grams(text) ==
    [i \in 1..Max(Len(text) - 1, 0) |-> slice(text, i - 1, i + 1)]

RECURSIVE full_text_loop(_, _, _)
full_text_loop(d, row, k) ==
    IF k > Len(SearchableCols) THEN <<>>
    ELSE (IF SearchableCols[k] \in d.columns
             THEN str(row[SearchableCols[k]])
             ELSE <<>>)
         \o full_text_loop(d, row, k + 1)

RECURSIVE full_text_sep_loop(_, _, _)
\* variant: the field values are joined with a space
full_text_sep_loop(d, row, k) ==
    IF k > Len(SearchableCols) THEN <<>>
    ELSE (IF SearchableCols[k] \in d.columns
             THEN str(row[SearchableCols[k]]) \o <<" ">>
             ELSE <<>>)
         \o full_text_sep_loop(d, row, k + 1)

full_text_sep(d, row) == full_text_sep_loop(d, row, 1)

\* the text build_inverted_index tokenizes for one row
full_text(d, row) == full_text_loop(d, row, 1)

RECURSIVE add_tokens_drop_last(_, _, _, _)
\* variant: the last token of a row is not added
add_tokens_drop_last(idx, toks, k, i) ==
    IF k >= Len(toks) THEN idx
    ELSE add_tokens_drop_last(index_append(idx, toks[k], i), toks, k + 1, i)

RECURSIVE add_tokens(_, _, _, _)
\* for token in tokens: index[token].append(i)
add_tokens(idx, toks, k, i) ==
    IF k > Len(toks) THEN idx
    ELSE add_tokens(index_append(idx, toks[k], i), toks, k + 1, i)

RECURSIVE build_rows(_, _, _)
\* for i, row in df.iterrows(): the label i of the r-th row is r - 1
build_rows(d, idx, r) ==
    IF r > Len(d.rows) THEN idx
    ELSE build_rows(d,
                    add_tokens(idx, generate_2grams(full_text(d, d.rows[r])), 1, r - 1),
                    r + 1)

build_inverted_index(d) == build_rows(d, <<>>, 1)

RECURSIVE intersect_loop_union(_, _, _, _)
\* variant: OR-mode, matched_indices.union(current_indices)
intersect_loop_union(matched, idx, toks, k) ==
    IF k > Len(toks) THEN [matched |-> matched, index |-> idx]
    ELSE LET idx1 == index_getitem(idx, toks[k])
         IN intersect_loop_union(matched \cup set(idx1[toks[k]]), idx1, toks, k + 1)

RECURSIVE intersect_loop_skip_empty(_, _, _, _)
\* variant: a token with no postings is skipped instead of emptying the result
intersect_loop_skip_empty(matched, idx, toks, k) ==
    IF k > Len(toks) THEN [matched |-> matched, index |-> idx]
    ELSE LET idx1 == index_getitem(idx, toks[k])
             cur  == set(idx1[toks[k]])
         IN intersect_loop_skip_empty(IF cur = {} THEN matched ELSE matched \cap cur,
                                      idx1, toks, k + 1)

RECURSIVE intersect_loop(_, _, _, _)
\* for token in tokens[1:]: matched_indices = matched_indices & set(index[token])
intersect_loop(matched, idx, toks, k) ==
    IF k > Len(toks) THEN [matched |-> matched, index |-> idx]
    ELSE LET idx1 == index_getitem(idx, toks[k])
         IN intersect_loop(matched \cap set(idx1[toks[k]]), idx1, toks, k + 1)

\* df.iloc[positions]: the selected rows, named by their positions
iloc(d, positions) == positions

\* variant: a query too short to tokenize returns every row
search_addresses_all_on_empty(q, idx, d) ==
    LET toks == generate_2grams(q)
    IN IF toks = <<>>
          THEN {[kind |-> "DataFrame", rows |-> [k \in 1..Len(d.rows) |-> k - 1],
                 index |-> idx, tokens |-> toks]}
          ELSE LET idx0 == index_getitem(idx, toks[1])
                   out  == intersect_loop(set(idx0[toks[1]]), idx0, toks, 2)
               IN {[kind   |-> "DataFrame",
                    rows   |-> iloc(d, positions),
                    index  |-> out.index,
                    tokens |-> toks] : positions \in list(out.matched)}

\* variant: the first posting list is filtered as a list, without set()
search_addresses_no_set(q, idx, d) ==
    LET toks == generate_2grams(q)
    IN IF toks = <<>>
          THEN {[kind |-> "list", rows |-> <<>>, index |-> idx, tokens |-> toks]}
          ELSE LET idx0 == index_getitem(idx, toks[1])
                   out  == intersect_loop(set(idx0[toks[1]]), idx0, toks, 2)
                   keep(i) == i \in out.matched
               IN {[kind   |-> "DataFrame",
                    rows   |-> iloc(d, SelectSeq(idx0[toks[1]], keep)),
                    index  |-> out.index,
                    tokens |-> toks]}

\* the set of outcomes a call can have: one per order in which
\* list(matched_indices) can come out
search_addresses(q, idx, d) ==
    LET toks == generate_2grams(q)
    IN IF toks = <<>>
          THEN {[kind |-> "list", rows |-> <<>>, index |-> idx, tokens |-> toks]}
          ELSE LET idx0 == index_getitem(idx, toks[1])
                   out  == intersect_loop(set(idx0[toks[1]]), idx0, toks, 2)
               IN {[kind   |-> "DataFrame",
                    rows   |-> iloc(d, positions),
                    index  |-> out.index,
                    tokens |-> toks] : positions \in list(out.matched)}

-----------------------------------------------------------------------------
(* State machine: load, build once, then any number of searches *)

Init ==
    /\ \E c \in SUBSET DfColumns : \E n \in 0..MaxRows :
          \E rs \in [1..n -> [c -> CellValues]] :
             df = [columns |-> c, rows |-> rs]
    /\ index = <<>>
    /\ pc = "loaded"
    /\ query = <<>>
    /\ tokens = <<>>
    /\ results = [kind |-> "none", rows |-> <<>>]

Build ==
    /\ pc = "loaded"
    /\ index' = build_inverted_index(df)
    /\ pc' = "built"
    /\ UNCHANGED <<df, query, tokens, results>>

Search ==
    /\ pc \in {"built", "searched"}
    /\ \E q \in Queries : \E out \in search_addresses(q, index, df) :
             /\ query' = q
             /\ tokens' = out.tokens
             /\ results' = [kind |-> out.kind, rows |-> out.rows]
             /\ index' = out.index
    /\ pc' = "searched"
    /\ UNCHANGED df

Next == Build \/ Search

Spec == Init /\ [][Next]_vars

-----------------------------------------------------------------------------
(* Vocabulary of the properties, stated without the program's operators *)

RowIds == 0..(Len(df.rows) - 1)

RECURSIVE Flatten(_)
Flatten(ss) == IF ss = <<>> THEN <<>> ELSE Head(ss) \o Flatten(Tail(ss))

\* what each configured field of record r contributes, in configured order
FieldTexts(r) ==
    [k \in 1..Len(SearchableCols) |->
        IF SearchableCols[k] \in df.columns
           THEN str(df.rows[r + 1][SearchableCols[k]])
           ELSE <<>>]

\* the concatenated searchable text of record r
RecordText(r) == Flatten(FieldTexts(r))

\* the same, an empty cell counted as the empty string
FieldTextsMissingEmpty(r) ==
    [k \in 1..Len(SearchableCols) |->
        IF /\ SearchableCols[k] \in df.columns
           /\ df.rows[r + 1][SearchableCols[k]] # NaN
           THEN df.rows[r + 1][SearchableCols[k]]
           ELSE <<>>]

RecordTextMissingEmpty(r) == Flatten(FieldTextsMissingEmpty(r))

\* the two characters of t stand next to each other somewhere in s
Occurs(t, s) == \E k \in 1..(Len(s) - 1) : s[k] = t[1] /\ s[k + 1] = t[2]

\* q is a contiguous substring of s
IsSubstring(q, s) ==
    \E o \in 0..(Len(s) - Len(q)) : \A k \in 1..Len(q) : s[o + k] = q[k]

\* the 2-grams of q, as a set
GramsOf(q) == {<<q[k], q[k + 1]>> : k \in 1..(Len(q) - 1)}

\* the record ids in the posting list of t, an absent key having none
Postings(idx, t) == IF t \in DOMAIN idx THEN set(idx[t]) ELSE {}

\* how often r stands in the posting list of t
Multiplicity(idx, t, r) ==
    IF t \in DOMAIN idx THEN Cardinality({k \in DOMAIN idx[t] : idx[t][k] = r}) ELSE 0

ResultIds == set(results.rows)

RECURSIVE Once(_)
\* a list holding each element of S once
Once(S) ==
    IF S = {} THEN <<>>
    ELSE LET m == CHOOSE x \in S : \A y \in S : x <= y
         IN <<m>> \o Once(S \ {m})

-----------------------------------------------------------------------------
(* Properties *)

\* C1: for a query of at least two characters, a record is in the search
\* result if and only if every 2-gram of the query occurs in the record's
\* concatenated searchable text.
C1_ConjunctiveCorrectness ==
    (pc = "searched" /\ Len(query) >= 2) =>
        ResultIds = {r \in RowIds : \A t \in GramsOf(query) : Occurs(t, RecordText(r))}

\* a two-token query that keeps one record and rejects another holding only
\* one of its tokens
C1_Witness ==
    /\ pc = "searched"
    /\ Len(query) = 3
    /\ ResultIds # {}
    /\ \E r \in RowIds \ ResultIds : \E t \in GramsOf(query) : Occurs(t, RecordText(r))

\* C2: once the index is built, record r is in the posting list of token t
\* if and only if t occurs as a 2-gram of r's concatenated searchable text.
C2_PostingListInvariant ==
    pc # "loaded" =>
        \A r \in RowIds : \A t \in AllTokens :
            (r \in Postings(index, t)) <=> Occurs(t, RecordText(r))

C2_Witness ==
    /\ pc = "built"
    /\ \E t \in AllTokens : \E r1, r2 \in RowIds :
          /\ r1 \in Postings(index, t)
          /\ r2 \notin Postings(index, t)
          /\ RecordText(r2) # <<>>

\* C3: a search leaves the index as it was: the same keys, the same posting
\* lists.
C3_QueryPhaseReadOnly ==
    [][(pc \in {"built", "searched"}) => (index' = index)]_vars

\* C4: a search with a query shorter than two characters returns an empty
\* result and leaves the index as it was.
C4_ShortQueryBoundary ==
    [][(pc' = "searched" /\ Len(query') < 2) =>
          (results'.rows = <<>> /\ index' = index)]_vars

C4_Witness ==
    /\ pc = "searched"
    /\ Len(query) = 1
    /\ \E t \in DOMAIN index : index[t] # <<>>
    /\ results.rows = <<>>

\* C5: a search with a query of at least two characters, one of whose 2-grams
\* is not a key of the index, completes with an empty result.
C5_AbsentTokenEmptyResult ==
    [][(/\ pc \in {"built", "searched"}
        /\ pc' = "searched"
        /\ Len(query') >= 2
        /\ \E t \in GramsOf(query') : t \notin DOMAIN index) =>
          (results'.kind = "DataFrame" /\ results'.rows = <<>>)]_vars

\* the first token has postings, a later one has none
C5_Witness ==
    /\ pc = "searched"
    /\ Len(query) = 3
    /\ index[tokens[1]] # <<>>
    /\ index[tokens[2]] = <<>>
    /\ results.kind = "DataFrame"
    /\ results.rows = <<>>

\* C6: a field with no value (absent column or empty cell) adds no characters
\* to the record's text: every token the record is indexed under is a 2-gram
\* of the concatenation of the values it does have.
C6_MissingFieldContributesNothing ==
    pc # "loaded" =>
        \A r \in RowIds : \A t \in AllTokens :
            (r \in Postings(index, t)) => Occurs(t, RecordTextMissingEmpty(r))

\* C7: the tokenizer returns max(0, len(s) - 2 + 1) tokens of length 2, the
\* i-th being the two characters of s from offset i.
C7_TokenizerShape ==
    pc = "searched" =>
        /\ Len(tokens) = Max(0, Len(query) - 2 + 1)
        /\ \A i \in 1..Len(tokens) :
              /\ Len(tokens[i]) = 2
              /\ tokens[i] = <<query[i], query[i + 1]>>

C7_Witness ==
    /\ pc = "searched"
    /\ Len(query) = 3
    /\ Len(tokens) = 2
    /\ tokens[1] # tokens[2]

\* C8: field values are concatenated in configured order with no separator:
\* the 2-gram made of the last character of one field and the first of the
\* next non-empty field is indexed for the record and a query made of it
\* returns the record; a 2-gram not adjacent in the concatenation does not.
C8_CrossFieldMatching ==
    pc # "loaded" =>
        \A r \in RowIds :
            /\ \A i, j \in 1..Len(SearchableCols) :
                  (/\ i < j
                   /\ FieldTexts(r)[i] # <<>>
                   /\ FieldTexts(r)[j] # <<>>
                   /\ \A m \in (i + 1)..(j - 1) : FieldTexts(r)[m] = <<>>) =>
                      LET fi == FieldTexts(r)[i]
                          t  == <<fi[Len(fi)], FieldTexts(r)[j][1]>>
                      IN /\ r \in Postings(index, t)
                         /\ (pc = "searched" /\ query = t) => r \in ResultIds
            /\ (pc = "searched" /\ Len(query) = 2 /\ ~Occurs(query, RecordText(r)))
                  => r \notin ResultIds

\* the query "an" returns a record whose two fields are "na" and "na": the
\* token exists only across the field boundary
C8_Witness ==
    /\ pc = "searched"
    /\ query = <<"a", "n">>
    /\ \E r \in ResultIds :
          /\ \A k \in 1..Len(SearchableCols) : ~Occurs(query, FieldTexts(r)[k])
          /\ \A k \in 1..Len(SearchableCols) : FieldTexts(r)[k] # <<"n", "a", "n">>

\* C9: repeated record ids in posting lists do not show in results: each
\* matching record is returned once, and the result is the one computed from
\* posting lists that hold each record id once.
C9_DuplicatesDoNotChangeResults ==
    (pc = "searched" /\ Len(query) >= 2) =>
        LET dedup == [t \in DOMAIN index |-> Once(set(index[t]))]
        IN /\ Cardinality(ResultIds) = Len(results.rows)
           /\ ResultIds = {r \in RowIds : \A t \in GramsOf(query) : r \in Postings(dedup, t)}

\* a returned record stands twice in the posting list of a query token
C9_Witness ==
    /\ pc = "searched"
    /\ Len(query) >= 2
    /\ \E r \in ResultIds : \E t \in GramsOf(query) : Multiplicity(index, t, r) >= 2

\* C10: a record whose concatenated searchable text contains the query (two
\* characters or more) as a contiguous substring is in the result.
C10_SubstringCompleteness ==
    (pc = "searched" /\ Len(query) >= 2) =>
        \A r \in RowIds : IsSubstring(query, RecordText(r)) => r \in ResultIds

C10_Witness ==
    /\ pc = "searched"
    /\ Len(query) = 3
    /\ \E r \in ResultIds : IsSubstring(query, RecordText(r))
    /\ \E r \in RowIds : r \notin ResultIds /\ RecordText(r) # <<>>

====
